---- MODULE Spec2Model ----
(***************************************************************************)
(* Model of check_domains.py: the retry-governed WHOIS lookup              *)
(* (check_domain_status), the classification of a lookup payload, and the  *)
(* bucketing / report / notification logic of main().                      *)
(*                                                                         *)
(* Text is modelled as a sequence of atoms (short pieces of text).  The    *)
(* atoms are chosen so that a marker of the source occurs in a text as a   *)
(* substring exactly when the marker's atoms occur as a contiguous run of  *)
(* the text's atoms.  Python's None is the empty sequence << >> and a      *)
(* present value v is << v >>.  Time is counted in ticks, TicksPerDay of   *)
(* them to a day.                                                          *)
(***************************************************************************)
EXTENDS Integers, Sequences, FiniteSets, Bags, TLC

(***************************************************************************)
(* Configuration (CONFIG) and bounds                                       *)
(***************************************************************************)
max_retries == 3

expiry_alert_days == 16

retry_delay == 2

request_delay == 1

MaxDomains == 2

MaxStatusLen == 2

TicksPerDay == 2

MaxNow == 1

Names == {"a.com", "b.com"}

None == << >>

Some(v) == << v >>

(***************************************************************************)
(* Text helpers                                                            *)
(***************************************************************************)
TextAtoms ==
  {"available", "Not Found", "Redemption", "period", "auto", "renewPeriod",
   "Client Hold", "pending delete", "serverhold", " ", "ok"}

\* str.lower() on one atom
LowerAtom(a) ==
  CASE a = "Not Found" -> "not found"
    [] a = "Redemption" -> "redemption"
    [] a = "renewPeriod" -> "renewperiod"
    [] a = "Client Hold" -> "client hold"
    [] OTHER -> a

\* str.lower()
Lower(s) == [k \in 1..Len(s) |-> LowerAtom(s[k])]

\* str.replace(' ', '') on one atom: the atom without its blanks, as a
\* (possibly empty) sequence of atoms
StripAtom(a) ==
  CASE a = " " -> << >>
    [] a = "not found" -> << "notfound" >>
    [] a = "Not Found" -> << "NotFound" >>
    [] a = "client hold" -> << "clienthold" >>
    [] a = "Client Hold" -> << "ClientHold" >>
    [] a = "pending delete" -> << "pendingdelete" >>
    [] OTHER -> << a >>

RECURSIVE RemoveSpaces(_)
\* str.replace(' ', '')
RemoveSpaces(s) ==
  IF s = << >> THEN << >> ELSE StripAtom(Head(s)) \o RemoveSpaces(Tail(s))

\* Python's  sub in s
Contains(sub, s) ==
  \E k \in 0..(Len(s) - Len(sub)) : SubSeq(s, k + 1, k + Len(sub)) = sub

(***************************************************************************)
(* special_statuses: the (marker, name) table in insertion order           *)
(***************************************************************************)
special_statuses ==
  << [key |-> << "redemption", "period" >>, name |-> "redemption_period"],
     [key |-> << "redemption" >>,           name |-> "redemption_period"],
     [key |-> << "pendingdelete" >>,        name |-> "pending_delete"],
     [key |-> << "pending delete" >>,       name |-> "pending_delete"],
     [key |-> << "auto", "renewperiod" >>,  name |-> "auto_renew_period"],
     [key |-> << "renewperiod" >>,          name |-> "renew_period"],
     [key |-> << "clienthold" >>,           name |-> "client_hold"],
     [key |-> << "serverhold" >>,           name |-> "server_hold"] >>

RECURSIVE ScanFrom(_, _)
\* the loop over special_statuses.items(), from table row k on
ScanFrom(k, domain_status) ==
  IF k > Len(special_statuses) THEN << >>
  ELSE (IF Contains(special_statuses[k].key, RemoveSpaces(domain_status))
          THEN << special_statuses[k].name >> ELSE << >>)
       \o ScanFrom(k + 1, domain_status)

status_info(domain_status) == ScanFrom(1, domain_status)

RECURSIVE Join(_)
\* ', '.join(names)
Join(names) ==
  IF Len(names) <= 1 THEN names
  ELSE << Head(names), ", " >> \o Join(Tail(names))

\* f"registered({', '.join(status_info)})" if status_info else "registered"
special_status(info) ==
  IF info # << >> THEN << "registered", "(" >> \o Join(info) \o << ")" >>
  ELSE << "registered" >>

(***************************************************************************)
(* Expiration strings and their parsing.  A string is                      *)
(* [layout, day, tod, pad]: the layout it is written in, the calendar day  *)
(* and time of day it names, and whether blanks surround it.  The layout   *)
(* "empty" is the empty string, "garbage" a text no layout accepts.        *)
(***************************************************************************)
time_formats == << "iso_z", "iso_frac_z", "space", "iso_t", "date" >>

\* datetime.strptime(s.strip(), fmt): the parsed instant, or None on ValueError
strptime(s, fmt) ==
  IF s.layout # fmt THEN None
  ELSE IF fmt = "date" THEN Some(s.day * TicksPerDay)
  ELSE Some(s.day * TicksPerDay + s.tod)

RECURSIVE TryFormats(_, _)
\* the loop over time_formats from entry k on: first successful parse wins
TryFormats(k, s) ==
  IF k > Len(time_formats) THEN None
  ELSE IF strptime(s, time_formats[k]) # None THEN strptime(s, time_formats[k])
  ELSE TryFormats(k + 1, s)

parse_expiry(s) == TryFormats(1, s)

\* days_between rounding toward zero
days_between_truncating(expiry_date, today) ==
  IF expiry_date < today THEN 0 - ((today - expiry_date) \div TicksPerDay)
  ELSE (expiry_date - today) \div TicksPerDay

\* (expiry_date - today).days : timedelta.days is the floor of the difference
days_between(expiry_date, today) == (expiry_date - today) \div TicksPerDay

\* expiry_date.strftime('%Y-%m-%d')
strftime_date(expiry_date) == expiry_date \div TicksPerDay

(***************************************************************************)
(* The body of the try block of check_domain_status once the HTTP request  *)
(* has returned a decoded JSON value `result`.  The value is either        *)
(* [tag |-> "return", value |-> the 4-tuple] or [tag |-> "raise", exc].    *)
(***************************************************************************)
Return(status, days, expiry, detail) ==
  [tag |-> "return",
   value |-> [status |-> status, days |-> days, expiry |-> expiry,
              detail |-> detail],
   exc |-> [type |-> "none", msg |-> << >>]]

NoValue ==
  [status |-> << >>, days |-> None, expiry |-> None,
   detail |-> [kind |-> "none", info |-> << >>]]

Raise(type, msg) ==
  [tag |-> "raise", value |-> NoValue, exc |-> [type |-> type, msg |-> msg]]

Detail(kind, info) == [kind |-> kind, info |-> info]

\* expiry_part letting the last ValueError of the parse loop escape
expiry_part_parse_raises(st, data, today) ==
  IF \/ data.expiration.type = "missing"
     \/ data.expiration.type = "str" /\ data.expiration.s.layout = "empty"
    THEN Return(st, None, None, Detail("no_expiry_info", << >>))
  ELSE IF data.expiration.type # "str"
    THEN Raise("AttributeError", << "object has no attribute 'strip'" >>)
  ELSE LET expiry_date == parse_expiry(data.expiration.s) IN
    IF expiry_date = None
      THEN Raise("ValueError", << "does not match format" >>)
    ELSE LET days_until_expiry == days_between(expiry_date[1], today) IN
      Return(st, Some(days_until_expiry), expiry_date,
             Detail("expires",
                    << strftime_date(expiry_date[1]), days_until_expiry >>))

\* lines 84-117, for a payload whose status text gave special_status st
expiry_part(st, data, today) ==
  IF \/ data.expiration.type = "missing"
     \/ data.expiration.type = "str" /\ data.expiration.s.layout = "empty"
    THEN Return(st, None, None, Detail("no_expiry_info", << >>))
  ELSE IF data.expiration.type # "str"
    THEN Raise("AttributeError", << "object has no attribute 'strip'" >>)
  ELSE LET expiry_date == parse_expiry(data.expiration.s) IN
    IF expiry_date = None
      THEN Return(st, None, None, Detail("unparsable", << data.expiration.s >>))
    ELSE LET days_until_expiry == days_between(expiry_date[1], today) IN
      Return(st, Some(days_until_expiry), expiry_date,
             Detail("expires",
                    << strftime_date(expiry_date[1]), days_until_expiry >>))

\* line 61: not domain_status or 'available' in ... or 'not found' in ...
is_unregistered(domain_status) ==
  \/ domain_status = << >>
  \/ Contains(<< "available" >>, domain_status)
  \/ Contains(<< "not found" >>, domain_status)

\* classify with the special states looked for before the unregistered test
classify_special_first(data, today) ==
  IF data.shape = "null"
    THEN Raise("AttributeError", << "'NoneType' object has no attribute 'get'" >>)
  ELSE IF data.shape = "dict" /\ data.domain_status.type = "number"
    THEN Raise("AttributeError", << "object has no attribute 'lower'" >>)
  ELSE LET domain_status ==
             IF data.shape = "absent" \/ data.domain_status.type = "missing"
               THEN << >> ELSE Lower(data.domain_status.text)
       IN IF status_info(domain_status) = << >>
               /\ is_unregistered(domain_status)
            THEN Return(<< "unregistered" >>, None, None,
                        Detail("domain_available", << >>))
          ELSE expiry_part(special_status(status_info(domain_status)),
                           data, today)

\* lines 55-117
classify(data, today) ==
  IF data.shape = "null"
    THEN Raise("AttributeError", << "'NoneType' object has no attribute 'get'" >>)
  ELSE IF data.shape = "dict" /\ data.domain_status.type = "number"
    THEN Raise("AttributeError", << "object has no attribute 'lower'" >>)
  ELSE LET domain_status ==
             IF data.shape = "absent" \/ data.domain_status.type = "missing"
               THEN << >> ELSE Lower(data.domain_status.text)
       IN IF is_unregistered(domain_status)
            THEN Return(<< "unregistered" >>, None, None,
                        Detail("domain_available", << >>))
          ELSE expiry_part(special_status(status_info(domain_status)),
                           data, today)

\* lines 48-117
try_body(result, today) ==
  IF result.shape # "dict"
    THEN Raise("AttributeError", << "'list' object has no attribute 'get'" >>)
  ELSE IF result.status # Some(200)
    THEN Raise("Exception",
               << "API_error: " >> \o
               (IF result.message = None THEN << "unknown error" >>
                ELSE result.message))
  ELSE classify(result.data, today)

(***************************************************************************)
(* The except clauses of check_domain_status (lines 119-138).  The value   *)
(* is [tag |-> "retry"] (sleep, then the recursive call with               *)
(* retry_count + 1) or a returned 4-tuple.                                 *)
(***************************************************************************)
Retry == [tag |-> "retry", value |-> NoValue,
          exc |-> [type |-> "none", msg |-> << >>]]

\* the exception classes  except requests.exceptions.RequestException  catches
RequestExceptionTypes == {"Timeout", "ConnectionError", "JSONDecodeError"}

\* handle_exception with the budget test off by one (<= for <)
handle_exception_one_more(exc, n) ==
  IF exc.type = "Timeout"
    THEN IF n <= max_retries THEN Retry
         ELSE Return(<< "query", "timeout" >>, None, None,
                     Detail("timeout_retried", << max_retries >>))
  ELSE IF exc.type \in RequestExceptionTypes
    THEN IF n <= max_retries THEN Retry
         ELSE Return(<< "query", "failed" >>, None, None,
                     Detail("network_error", exc.msg))
  ELSE IF n <= max_retries /\ Contains(<< "API_error: " >>, exc.msg) THEN Retry
  ELSE Return(<< "query", "failed" >>, None, None,
              Detail("exception", exc.msg))

\* handle_exception with the provider's error reported as a network error
handle_exception_wrong_kind(exc, n) ==
  IF exc.type = "Timeout"
    THEN IF n < max_retries THEN Retry
         ELSE Return(<< "query", "timeout" >>, None, None,
                     Detail("timeout_retried", << max_retries >>))
  ELSE IF n < max_retries
            /\ (exc.type \in RequestExceptionTypes
                  \/ Contains(<< "API_error: " >>, exc.msg)) THEN Retry
  ELSE Return(<< "query", "failed" >>, None, None,
              Detail(IF exc.type = "AttributeError" THEN "exception"
                     ELSE "network_error", exc.msg))

\* handle_exception retrying every exception, whatever its message
handle_exception_retry_all(exc, n) ==
  IF exc.type = "Timeout"
    THEN IF n < max_retries THEN Retry
         ELSE Return(<< "query", "timeout" >>, None, None,
                     Detail("timeout_retried", << max_retries >>))
  ELSE IF exc.type \in RequestExceptionTypes
    THEN IF n < max_retries THEN Retry
         ELSE Return(<< "query", "failed" >>, None, None,
                     Detail("network_error", exc.msg))
  ELSE IF n < max_retries THEN Retry
  ELSE Return(<< "query", "failed" >>, None, None,
              Detail("exception", exc.msg))

\* handle_exception letting an exception it does not retry leave the function
handle_exception_reraise(exc, n) ==
  IF exc.type = "Timeout"
    THEN IF n < max_retries THEN Retry
         ELSE Return(<< "query", "timeout" >>, None, None,
                     Detail("timeout_retried", << max_retries >>))
  ELSE IF exc.type \in RequestExceptionTypes
    THEN IF n < max_retries THEN Retry
         ELSE Return(<< "query", "failed" >>, None, None,
                     Detail("network_error", exc.msg))
  ELSE IF n < max_retries /\ Contains(<< "API_error: " >>, exc.msg) THEN Retry
  ELSE Raise(exc.type, exc.msg)

handle_exception(exc, n) ==
  IF exc.type = "Timeout"
    THEN IF n < max_retries THEN Retry
         ELSE Return(<< "query", "timeout" >>, None, None,
                     Detail("timeout_retried", << max_retries >>))
  ELSE IF exc.type \in RequestExceptionTypes
    THEN IF n < max_retries THEN Retry
         ELSE Return(<< "query", "failed" >>, None, None,
                     Detail("network_error", exc.msg))
  ELSE IF n < max_retries /\ Contains(<< "API_error: " >>, exc.msg) THEN Retry
  ELSE Return(<< "query", "failed" >>, None, None,
              Detail("exception", exc.msg))

\* What requests.get(...), raise_for_status() and response.json() deliver for
\* a lookup outcome o: a decoded JSON value, or an exception.  newlib says
\* whether the installed requests raises its own JSONDecodeError (a
\* RequestException, requests >= 2.27) or a plain ValueError for a body that
\* is not JSON.
request(o, today, newlib) ==
  CASE o.kind = "timeout" -> Raise("Timeout", << "read timed out" >>)
    [] o.kind = "request_error" ->
         Raise("ConnectionError", << "connection failed" >>)
    [] o.kind = "bad_json" ->
         Raise(IF newlib THEN "JSONDecodeError" ELSE "ValueError",
               << "Expecting value" >>)
    [] OTHER -> try_body(o.result, today)

\* attempt giving up once the retries are used up, before looking at the
\* response
attempt_budget_first(o, today, n, newlib) ==
  LET r == request(o, today, newlib) IN
    IF n >= max_retries
      THEN Return(<< "query", "failed" >>, None, None,
                  Detail("exception", << "retries used up" >>))
    ELSE IF r.tag = "return" THEN r ELSE handle_exception(r.exc, n)

\* one activation of check_domain_status(domain, n): lines 39-138 up to the
\* return or the sleep before the recursive call
attempt(o, today, n, newlib) ==
  LET r == request(o, today, newlib) IN
    IF r.tag = "return" THEN r ELSE handle_exception(r.exc, n)

(***************************************************************************)
(* main(): the bucketing of one returned 4-tuple (lines 212-233)           *)
(***************************************************************************)
EmptyResults ==
  [unregistered |-> << >>, expiring |-> << >>, normal |-> << >>,
   special |-> << >>, failed |-> << >>]

\* in_alert_window with the upper end left out
in_alert_window_strict(days) == 0 <= days /\ days < expiry_alert_days

in_alert_window(days) == 0 <= days /\ days <= expiry_alert_days

\* bucket_of with the expiry window tested before the special states
bucket_of_window_first(v) ==
  IF v.status = << "unregistered" >> THEN "unregistered"
  ELSE IF Contains(<< "query", "failed" >>, v.status)
          \/ Contains(<< "timeout" >>, v.status) THEN "failed"
  ELSE IF v.days # None /\ in_alert_window(v.days[1]) THEN "expiring"
  ELSE IF /\ Len(v.status) >= 2
          /\ SubSeq(v.status, 1, 2) = << "registered", "(" >>
          /\ v.status # << "registered" >> THEN "special"
  ELSE "normal"

\* the name of the list the if/elif chain appends to
bucket_of(v) ==
  IF v.status = << "unregistered" >> THEN "unregistered"
  ELSE IF Contains(<< "query", "failed" >>, v.status)
          \/ Contains(<< "timeout" >>, v.status) THEN "failed"
  ELSE IF /\ Len(v.status) >= 2
          /\ SubSeq(v.status, 1, 2) = << "registered", "(" >>
          /\ v.status # << "registered" >> THEN "special"
  ELSE IF v.status = << "registered" >> /\ v.days # None
    THEN IF in_alert_window(v.days[1]) THEN "expiring" ELSE "normal"
  ELSE "normal"

\* the tuple appended to that list
entry_of(domain, v) ==
  CASE bucket_of(v) \in {"unregistered", "failed"} ->
         [domain |-> domain, detail |-> v.detail]
    [] bucket_of(v) = "special" ->
         [domain |-> domain, status |-> v.status, detail |-> v.detail]
    [] OTHER ->
         IF v.status = << "registered" >> /\ v.days # None
           THEN [domain |-> domain, days |-> v.days, expiry |-> v.expiry]
           ELSE [domain |-> domain, days |-> Some(0), expiry |-> None]

\* add_result leaving out a domain the list already holds
add_result_once(res, domain, v) ==
  IF \E k \in 1..Len(res[bucket_of(v)]) : res[bucket_of(v)][k].domain = domain
    THEN res
    ELSE [res EXCEPT ![bucket_of(v)] = Append(@, entry_of(domain, v))]

add_result(res, domain, v) ==
  [res EXCEPT ![bucket_of(v)] = Append(@, entry_of(domain, v))]

(***************************************************************************)
(* main(): the report (lines 255-305)                                      *)
(***************************************************************************)
RECURSIVE insert_before_equal(_, _)
\* insert_by_days placing e before the elements with an equal key
insert_before_equal(sorted_seq, e) ==
  IF sorted_seq = << >> THEN << e >>
  ELSE IF Head(sorted_seq).days[1] < e.days[1]
    THEN << Head(sorted_seq) >> \o insert_before_equal(Tail(sorted_seq), e)
  ELSE << e >> \o sorted_seq

RECURSIVE insert_by_days(_, _)
\* e placed after every element whose key is <= its own
insert_by_days(sorted_seq, e) ==
  IF sorted_seq = << >> THEN << e >>
  ELSE IF Head(sorted_seq).days[1] <= e.days[1]
    THEN << Head(sorted_seq) >> \o insert_by_days(Tail(sorted_seq), e)
  ELSE << e >> \o sorted_seq

RECURSIVE sorted_by_days(_)
\* sorted(results['expiring'], key=lambda x: x[1]) : a stable sort
sorted_by_days(seq) ==
  IF seq = << >> THEN << >>
  ELSE insert_by_days(sorted_by_days(SubSeq(seq, 1, Len(seq) - 1)),
                      seq[Len(seq)])

\* urgency with the first tier ending a day early
urgency_under_seven(days) ==
  IF days < 7 THEN "red" ELSE IF days <= 14 THEN "yellow" ELSE "green"

\* line 272
urgency(days) ==
  IF days <= 7 THEN "red" ELSE IF days <= 14 THEN "yellow" ELSE "green"

\* lines 256-290: the sections of the message, an empty section being left out
build_message(res, total) ==
  [total |-> total,
   unregistered |-> [k \in 1..Len(res.unregistered) |->
                       res.unregistered[k].domain],
   expiring |-> LET sorted_expiring == sorted_by_days(res.expiring) IN
                [k \in 1..Len(sorted_expiring) |->
                   [urgency |-> urgency(sorted_expiring[k].days[1]),
                    domain |-> sorted_expiring[k].domain,
                    days |-> sorted_expiring[k].days[1],
                    date |-> strftime_date(sorted_expiring[k].expiry[1])]],
   special |-> [k \in 1..Len(res.special) |->
                  [domain |-> res.special[k].domain,
                   status |-> res.special[k].status]],
   failed |-> res.failed]

\* should_notify with the failed list forgotten
should_notify_no_failed(res) ==
  \/ res.unregistered # << >>
  \/ res.expiring # << >>
  \/ res.special # << >>

\* lines 293-296
should_notify(res) ==
  \/ res.unregistered # << >>
  \/ res.expiring # << >>
  \/ res.special # << >>
  \/ res.failed # << >>

\* notifier_calls with one message sent for each section that has entries
notifier_calls_per_section(res) ==
  Cardinality({ b \in {"unregistered", "expiring", "special", "failed"} :
                  res[b] # << >> })

\* lines 298-305: the notifier is called once if should_notify, else not
notifier_calls(res) == IF should_notify(res) THEN 1 ELSE 0

\* next_retry_count passing the count on unchanged
next_retry_count_same(n) == n

\* next_retry_count skipping a count
next_retry_count_skip(n) == n + 2

\* the argument of the recursive call (lines 123, 130, 137)
next_retry_count(n) == n + 1

\* the seconds slept before a retry (lines 122, 129, 136)
backoff_delay(n) == retry_delay

\* after_return sleeping after the last domain too
after_return_always_pause(idx, n) == "pause"

\* lines 236-237: after a result, sleep unless the domain was the last
after_return(idx, n) == IF idx < n THEN "pause" ELSE "report"

\* lookups of one domain the model follows: one more than the code allows
MaxAttempts == max_retries + 2

(***************************************************************************)
(* Inputs                                                                  *)
(***************************************************************************)
Nows == 0..MaxNow

Str(text) == [type |-> "str", text |-> text]

NoExp == [layout |-> "empty", day |-> 0, tod |-> 0, pad |-> FALSE]

Exp(layout, day, tod, pad) ==
  [layout |-> layout, day |-> day, tod |-> tod, pad |-> pad]

ExpStr(s) == [type |-> "str", s |-> s]

ExpMissing == [type |-> "missing", s |-> NoExp]

ExpNumber == [type |-> "number", s |-> NoExp]

\* a JSON body {status: 200, data: {...}}
Body(domain_status, expiration) ==
  [kind |-> "json",
   result |-> [shape |-> "dict", status |-> Some(200), message |-> None,
               data |-> [shape |-> "dict", domain_status |-> domain_status,
                         expiration |-> expiration]]]

NoData(shape) ==
  [shape |-> shape, domain_status |-> [type |-> "missing", text |-> << >>],
   expiration |-> ExpMissing]

\* a JSON body whose data member is missing or null
BodyData(shape) ==
  [kind |-> "json",
   result |-> [shape |-> "dict", status |-> Some(200), message |-> None,
               data |-> NoData(shape)]]

\* a JSON body with a status other than 200
BodyError(status, message) ==
  [kind |-> "json",
   result |-> [shape |-> "dict", status |-> status, message |-> message,
               data |-> NoData("absent")]]

\* a JSON body that is no object
BodyList ==
  [kind |-> "json",
   result |-> [shape |-> "list", status |-> None, message |-> None,
               data |-> NoData("absent")]]

Failure(kind) == [kind |-> kind, result |-> BodyList.result]

Garbage(pad) == Exp("garbage", 0, 0, pad)

\* the lookup outcomes a run draws from
RunOutcomes ==
  { Failure("timeout"), Failure("request_error"), Failure("bad_json"),
    BodyError(Some(500), << "rate limited" >>),
    BodyList, BodyData("null"),
    Body(Str(<< "ok" >>), ExpNumber),
    Body(Str(<< "available" >>), ExpMissing),
    Body(Str(<< "ok" >>), ExpMissing),
    Body(Str(<< "ok" >>), ExpStr(Garbage(FALSE))),
    Body(Str(<< "ok" >>), ExpStr(Exp("iso_z", 10, 1, FALSE))),
    Body(Str(<< "ok" >>), ExpStr(Exp("date", expiry_alert_days + 1, 0, TRUE))),
    Body(Str(<< "Client Hold" >>), ExpStr(Exp("space", 10, 0, FALSE))) }

Days == (0 - 1)..(expiry_alert_days + 2)

AllTexts == UNION { [1..n -> TextAtoms] : n \in 0..MaxStatusLen }

AllExps ==
  { ExpMissing, ExpNumber, ExpStr(NoExp) }
  \cup { ExpStr(Garbage(p)) : p \in BOOLEAN }
  \cup { ExpStr(Exp("date", d, 0, p)) : d \in Days, p \in BOOLEAN }
  \cup { ExpStr(Exp(l, d, t, p)) :
           l \in {"iso_z", "iso_frac_z", "space", "iso_t"},
           d \in Days, t \in 0..(TicksPerDay - 1), p \in BOOLEAN }

SomeTexts ==
  { << >>, << "ok" >>, << " " >>, << "available", "serverhold" >>,
    << "Client Hold" >>, << "Redemption", "period" >>,
    << "ok", "pending delete" >> }

SomeExps ==
  { ExpMissing, ExpNumber, ExpStr(NoExp), ExpStr(Garbage(TRUE)),
    ExpStr(Exp("iso_z", 10, 1, FALSE)), ExpStr(Exp("date", 0, 0, FALSE)),
    ExpStr(Exp("iso_t", expiry_alert_days + 1, 0, TRUE)) }

\* the payloads the classification is applied to on its own
ClassifyOutcomes ==
  { Body(Str(t), e) : t \in AllTexts, e \in SomeExps }
  \cup { Body(Str(t), e) : t \in SomeTexts, e \in AllExps }
  \cup { Body([type |-> x, text |-> << >>], e) :
           x \in {"missing", "number"}, e \in SomeExps }
  \cup { BodyList, BodyData("null"), BodyData("absent"),
         BodyError(Some(500), << "rate limited" >>), BodyError(None, None) }

(***************************************************************************)
(* Vocabulary for lookup outcomes                                          *)
(***************************************************************************)
\* the kind of transient failure an outcome is: a timeout, a network-level
\* error, an error status reported by the provider; "none" otherwise
failure_kind(o, lib) ==
  CASE o.kind = "timeout" -> "timeout"
    [] o.kind = "request_error" -> "network"
    [] o.kind = "bad_json" -> IF lib THEN "network" ELSE "none"
    [] o.kind = "json" /\ o.result.shape = "dict"
         /\ o.result.status # Some(200) -> "provider"
    [] OTHER -> "none"

\* the status text of a JSON body as the provider sent it
status_text(o) ==
  IF o.result.data.shape = "dict" /\ o.result.data.domain_status.type = "str"
    THEN o.result.data.domain_status.text ELSE << >>

\* rule 1 in the words of the design: empty text, or an "available" or
\* "not found" marker in any letter case
rule1(text) ==
  \/ text = << >>
  \/ \E k \in 1..Len(text) : LowerAtom(text[k]) \in {"available", "not found"}

\* a JSON body with status 200 whose shape the code cannot walk
malformed(o) ==
  /\ o.kind = "json"
  /\ \/ o.result.shape # "dict"
     \/ /\ o.result.status = Some(200)
        /\ \/ o.result.data.shape = "null"
           \/ /\ o.result.data.shape = "dict"
              /\ \/ o.result.data.domain_status.type = "number"
                 \/ /\ o.result.data.expiration.type = "number"
                    /\ ~rule1(status_text(o))

\* a JSON body with status 200 that the code can walk
successful(o) ==
  /\ o.kind = "json"
  /\ o.result.shape = "dict"
  /\ o.result.status = Some(200)
  /\ ~malformed(o)

(***************************************************************************)
(* State                                                                   *)
(***************************************************************************)
VARIABLES
  domains,        \* the list read from domains.txt
  i,              \* enumerate index of the domain being checked (from 1)
  pc,             \* "request", "backoff", "pause", "report", "done"
  retry_count,    \* parameter of the active check_domain_status call
  results,        \* the five lists of main()
  message,        \* None, or the message built by the report
  notified,       \* "no", or how the notification step ended
  newlib,         \* requests raises its own JSONDecodeError
  input,          \* None, or the one lookup outcome the run is given
  attempts,       \* lookups issued for the current domain
  last,           \* None, or the outcome and clock of the latest lookup
  ret,            \* None, or the 4-tuple returned for the current domain
  mixed,          \* the failed lookups for the current domain differ in kind
  retry_waits,    \* sleeps of retry_delay for the current domain
  request_waits,  \* sleeps of request_delay in the run
  slept,          \* seconds of the latest time.sleep (0 before the first)
  sends           \* calls of send_telegram_notification

vars ==
  << domains, i, pc, retry_count, results, message, notified, newlib, input,
     attempts, last, ret, mixed, retry_waits, request_waits, slept, sends >>

DomainLists == UNION { [1..n -> Names] : n \in 0..MaxDomains }

Start(ds) ==
  /\ domains = ds
  /\ i = 1
  /\ pc = IF ds = << >> THEN "done" ELSE "request"
  /\ retry_count = 0
  /\ results = EmptyResults
  /\ message = None
  /\ notified = "no"
  /\ attempts = 0
  /\ last = None
  /\ ret = None
  /\ mixed = FALSE
  /\ retry_waits = 0
  /\ request_waits = 0
  /\ slept = 0
  /\ sends = 0

Init ==
  /\ \E ds \in DomainLists : Start(ds)
  /\ newlib \in BOOLEAN
  /\ input = None

\* datetime.now() is read (line 113) only once an expiry date has parsed
reads_clock(o) == request(o, 0, TRUE).value.detail.kind = "expires"

\* an outcome with the clock reading it meets (0 where the clock is not read)
Readings(outcomes) ==
  { [out |-> o, today |-> t] : o \in outcomes, t \in Nows }
  \ { c \in [out : outcomes, today : Nows \ {0}] : ~reads_clock(c.out) }

InitClassify ==
  /\ \E d \in Names : Start(<< d >>)
  /\ newlib = TRUE
  /\ input \in { Some(c) : c \in Readings(ClassifyOutcomes) }

\* the lookup outcomes and clock readings the next lookup can meet
Choices == IF input # None THEN { input[1] } ELSE Readings(RunOutcomes)

\* line 209 and lines 212-237: one lookup for domains[i]; on a return the
\* result is put in its list and the loop goes on.  An exception that left
\* check_domain_status would leave main() too (lines 309-316).
Attempt ==
  /\ pc = "request"
  /\ attempts < MaxAttempts
  /\ \E c \in Choices :
       LET r == attempt(c.out, c.today, retry_count, newlib) IN
         /\ attempts' = attempts + 1
         /\ last' = Some(c)
         /\ mixed' = \/ mixed
                      \/ /\ last # None
                         /\ failure_kind(c.out, newlib) \notin
                              {"none", failure_kind(last[1].out, newlib)}
         /\ CASE r.tag = "retry" ->
                   /\ pc' = "backoff"
                   /\ UNCHANGED << ret, results >>
              [] r.tag = "raise" ->
                   /\ pc' = "done"
                   /\ UNCHANGED << ret, results >>
              [] OTHER ->
                   /\ ret' = Some(r.value)
                   /\ results' = add_result(results, domains[i], r.value)
                   /\ pc' = after_return(i, Len(domains))
  /\ UNCHANGED << domains, i, retry_count, message, notified, newlib, input,
                  retry_waits, request_waits, slept, sends >>

\* time.sleep(CONFIG['retry_delay']) and the recursive call (lines 122-123,
\* 129-130, 136-137)
Backoff ==
  /\ pc = "backoff"
  /\ retry_waits' = retry_waits + 1
  /\ slept' = backoff_delay(retry_count)
  /\ retry_count' = next_retry_count(retry_count)
  /\ pc' = "request"
  /\ UNCHANGED << domains, i, results, message, notified, newlib, input,
                  attempts, last, ret, mixed, request_waits, sends >>

\* time.sleep(CONFIG['request_delay']) and the next iteration (lines 236-237,
\* 206-209); the loop ends when the list is used up
Pause ==
  /\ pc = "pause"
  /\ request_waits' = request_waits + 1
  /\ slept' = request_delay
  /\ i' = IF i < Len(domains) THEN i + 1 ELSE i
  /\ retry_count' = 0
  /\ attempts' = 0
  /\ last' = None
  /\ ret' = None
  /\ mixed' = FALSE
  /\ retry_waits' = 0
  /\ pc' = IF i < Len(domains) THEN "request" ELSE "report"
  /\ UNCHANGED << domains, results, message, notified, newlib, input, sends >>

\* lines 239-305: the loop is over and the last check_domain_status call has
\* returned, so its bookkeeping is dropped; the message is built and, if need
\* be, handed to send_telegram_notification, which reports success or failure
Report ==
  /\ pc = "report"
  /\ message' = Some(build_message(results, Len(domains)))
  /\ sends' = sends + notifier_calls(results)
  /\ IF notifier_calls(results) > 0
       THEN notified' \in {"sent", "failed"}
       ELSE notified' = "quiet"
  /\ retry_count' = 0
  /\ attempts' = 0
  /\ last' = None
  /\ ret' = None
  /\ mixed' = FALSE
  /\ retry_waits' = 0
  /\ pc' = "done"
  /\ UNCHANGED << domains, i, results, newlib, input, request_waits, slept >>

Next == Attempt \/ Backoff \/ Pause \/ Report

Spec == Init /\ [][Next]_vars

NextClassify == Attempt \/ Report

SpecClassify == InitClassify /\ [][NextClassify]_vars

(***************************************************************************)
(* Vocabulary for the properties                                           *)
(***************************************************************************)
ListNames == {"unregistered", "expiring", "normal", "special", "failed"}

\* the number of domains put in a list so far
Bucketed(res) ==
  Len(res.unregistered) + Len(res.expiring) + Len(res.normal)
    + Len(res.special) + Len(res.failed)

IsPrefix(s, t) == Len(s) <= Len(t) /\ SubSeq(t, 1, Len(s)) = s

\* the kind of failure a returned detail speaks of
detail_kind(detail) ==
  CASE detail.kind = "timeout_retried" -> "timeout"
    [] detail.kind = "network_error" -> "network"
    [] detail.kind = "exception"
         /\ Contains(<< "API_error: " >>, detail.info) -> "provider"
    [] OTHER -> "none"

\* the current domain's resolution has returned
Returned == ret # None /\ last # None

(***************************************************************************)
(* C1: one resolution of a domain issues at most max_retries + 1 lookups   *)
(* before it returns, whatever the outcomes are, and every domain starts   *)
(* with retry_count 0: before a lookup the retry count equals the number   *)
(* of lookups already issued for that domain, and after it one less.       *)
(***************************************************************************)
C1_AttemptBound ==
  /\ attempts <= max_retries + 1
  /\ pc = "request" => retry_count = attempts
  /\ pc \in {"backoff", "pause", "report"} => retry_count = attempts - 1
  /\ Returned => attempts \in 1..(max_retries + 1)

C1_Witness ==
  /\ i = 2
  /\ Returned
  /\ attempts = max_retries + 1
  /\ Len(results.failed) = 2

(***************************************************************************)
(* C2: when the lookup that follows max_retries failed lookups brings a    *)
(* successful payload, the domain's result is the classification of that   *)
(* payload and is not put in the failed list.                              *)
(***************************************************************************)
C2_SuccessAfterRetries ==
  (Returned /\ attempts = max_retries + 1 /\ successful(last[1].out)) =>
     /\ ret[1] = try_body(last[1].out.result, last[1].today).value
     /\ bucket_of(ret[1]) # "failed"
     /\ ~Contains(<< "query" >>, ret[1].status)

C2_Witness ==
  /\ Returned
  /\ attempts = max_retries + 1
  /\ mixed
  /\ successful(last[1].out)
  /\ results.expiring # << >>
  /\ results.failed = << >>

(***************************************************************************)
(* C3: a resolution ends on a transient failure only at lookup             *)
(* max_retries + 1; its result is then in the failed list, and the detail  *)
(* speaks of the kind of that last failure.                                *)
(***************************************************************************)
C3_LastFailureKind ==
  (Returned /\ failure_kind(last[1].out, newlib) # "none") =>
     /\ attempts = max_retries + 1
     /\ bucket_of(ret[1]) = "failed"
     /\ ret[1].days = None /\ ret[1].expiry = None
     /\ detail_kind(ret[1].detail) = failure_kind(last[1].out, newlib)
     /\ results.failed # << >>
     /\ results.failed[Len(results.failed)] =
          [domain |-> domains[i], detail |-> ret[1].detail]

C3_Witness ==
  /\ Returned
  /\ mixed
  /\ failure_kind(last[1].out, newlib) = "provider"
  /\ detail_kind(ret[1].detail) = "provider"

(***************************************************************************)
(* C4 as stated: a malformed response ends the resolution at that lookup   *)
(* with the raw error in the detail, is not retried, and its category is   *)
(* not the one of a failed query.                                          *)
(***************************************************************************)
C4_MalformedIsUnknown ==
  (last # None /\ malformed(last[1].out)) =>
     /\ pc # "backoff"
     /\ Returned
     /\ ret[1].detail.info = request(last[1].out, last[1].today, newlib).exc.msg
     /\ ret[1].status # << "query", "failed" >>
     /\ bucket_of(ret[1]) # "failed"

(***************************************************************************)
(* C4 amended: a malformed response ends the resolution at that lookup     *)
(* with the raw error in the detail and is not retried; its status is the  *)
(* one of a failed query and it is put in the failed list.                 *)
(***************************************************************************)
C4_MalformedIsFailed ==
  (last # None /\ malformed(last[1].out)) =>
     /\ pc # "backoff"
     /\ Returned
     /\ ret[1].detail =
          Detail("exception",
                 request(last[1].out, last[1].today, newlib).exc.msg)
     /\ ret[1].status = << "query", "failed" >>
     /\ results.failed # << >>
     /\ results.failed[Len(results.failed)] =
          [domain |-> domains[i], detail |-> ret[1].detail]

C4_Witness ==
  /\ Returned
  /\ malformed(last[1].out)
  /\ attempts = 1
  /\ retry_waits = 0
  /\ Len(results.failed) = 1

(***************************************************************************)
(* C5: no outcome of a lookup ends the run.  A step that issues a lookup   *)
(* either starts the wait before a retry of the same domain, or puts       *)
(* exactly one entry for that domain in a list, leaves every earlier entry *)
(* as it was, and goes on to the next domain (or to the report after the   *)
(* last one); the wait between domains leads to the next domain's lookup.  *)
(***************************************************************************)
C5_StepIsolated ==
  \/ /\ pc' = "backoff"
     /\ results' = results
     /\ i' = i
  \/ /\ pc' = IF i < Len(domains) THEN "pause" ELSE "report"
     /\ i' = i
     /\ Bucketed(results') = Bucketed(results) + 1
     /\ \A b \in ListNames : IsPrefix(results[b], results'[b])
     /\ \E b \in ListNames :
          /\ Len(results'[b]) = Len(results[b]) + 1
          /\ results'[b][Len(results'[b])].domain = domains[i]

C5_Isolation ==
  [][ /\ attempts' = attempts + 1 => C5_StepIsolated
      /\ pc = "pause" => (pc' = "request" /\ i' = i + 1 /\ results' = results)
    ]_vars

C5_Witness ==
  /\ pc = "done"
  /\ Len(domains) = 2
  /\ domains[1] # domains[2]
  /\ Len(results.failed) = 1
  /\ results.failed[1].domain = domains[1]
  /\ Len(results.expiring) = 1
  /\ results.expiring[1].domain = domains[2]

(***************************************************************************)
(* Vocabulary for the classification properties                            *)
(***************************************************************************)
\* the markers of the special states, as written in the table
Markers == { special_statuses[k].key : k \in 1..Len(special_statuses) }

\* the text, in lower case and without blanks, holds a special-state marker
has_marker(text) ==
  \E m \in Markers : Contains(m, RemoveSpaces(Lower(text)))

\* the payload of the latest lookup names an expiry date that parses
expiry_parses(o) ==
  /\ o.result.data.expiration.type = "str"
  /\ o.result.data.expiration.s.layout \in
       { time_formats[k] : k \in 1..Len(time_formats) }

\* the only entry in the lists is this one, in list b
OnlyIn(b, e) ==
  /\ results[b] = << e >>
  /\ \A c \in ListNames \ {b} : results[c] = << >>

(***************************************************************************)
(* C6: a successful payload whose status text is empty or holds an         *)
(* "available" or "not found" marker in any letter case is unregistered,   *)
(* with no expiry and no day count, and is put in the unregistered list,   *)
(* whatever special-state markers and expiration the payload carries.      *)
(***************************************************************************)
C6_Rule1Wins ==
  (Returned /\ successful(last[1].out) /\ rule1(status_text(last[1].out))) =>
     /\ ret[1].status = << "unregistered" >>
     /\ ret[1].days = None
     /\ ret[1].expiry = None
     /\ OnlyIn("unregistered",
               [domain |-> domains[i], detail |-> ret[1].detail])

C6_Witness ==
  /\ Returned
  /\ status_text(last[1].out) = << "available", "serverhold" >>
  /\ has_marker(status_text(last[1].out))
  /\ expiry_parses(last[1].out)
  /\ Len(results.unregistered) = 1

(***************************************************************************)
(* C7: a successful payload with a special-state marker that rule 1 does   *)
(* not make unregistered is put in the special list and not in the         *)
(* expiring list, whether its expiry is in the alert window, outside it,   *)
(* absent or unparsable.                                                   *)
(***************************************************************************)
C7_SpecialNotExpiring ==
  (Returned /\ successful(last[1].out)
     /\ ~rule1(status_text(last[1].out))
     /\ has_marker(status_text(last[1].out))) =>
     /\ OnlyIn("special",
               [domain |-> domains[i], status |-> ret[1].status,
                detail |-> ret[1].detail])
     /\ results.expiring = << >>

C7_Witness ==
  /\ Returned
  /\ has_marker(status_text(last[1].out))
  /\ ret[1].days # None
  /\ ret[1].days[1] \in 0..expiry_alert_days
  /\ Len(results.special) = 1

(***************************************************************************)
(* C8: a registered result without special state whose expiry parsed is    *)
(* put in the expiring list if 0 <= days <= expiry_alert_days and in the   *)
(* normal list otherwise, negative day counts included.                    *)
(***************************************************************************)
C8_ExpiringWindow ==
  (Returned /\ ret[1].status = << "registered" >> /\ ret[1].expiry # None) =>
     /\ ret[1].days # None
     /\ LET e == [domain |-> domains[i], days |-> ret[1].days,
                  expiry |-> ret[1].expiry]
        IN IF 0 <= ret[1].days[1] /\ ret[1].days[1] <= expiry_alert_days
             THEN OnlyIn("expiring", e)
             ELSE OnlyIn("normal", e)

C8_Witness ==
  /\ Returned
  /\ ret[1].status = << "registered" >>
  /\ ret[1].days = Some(expiry_alert_days)
  /\ Len(results.expiring) = 1

(***************************************************************************)
(* C9: the domains put in the five lists are, occurrence by occurrence,    *)
(* the input domains processed so far: after the run every input domain,   *)
(* duplicates included, is in exactly one list.                            *)
(***************************************************************************)
\* how many of the first n input domains are d
InInput(d, n) == Cardinality({ k \in 1..n : domains[k] = d })

\* how many entries of the lists are for d
InLists(d) ==
  Cardinality({ p \in ListNames \X (1..MaxDomains + 1) :
                  /\ p[2] <= Len(results[p[1]])
                  /\ results[p[1]][p[2]].domain = d })

\* the number of input domains whose result is in a list
Processed ==
  IF domains = << >> THEN 0
  ELSE IF pc \in {"request", "backoff"} THEN i - 1 ELSE i

C9_OneListEach ==
  /\ Bucketed(results) = Processed
  /\ \A d \in Names : InLists(d) = InInput(d, Processed)
  /\ pc = "done" => Processed = Len(domains)

C9_Witness ==
  /\ pc = "done"
  /\ Len(domains) = 2
  /\ domains[1] = domains[2]
  /\ Len(results.expiring) = 2

(***************************************************************************)
(* C10: every result, in every list, carries a day count exactly when it   *)
(* carries an expiry date.                                                 *)
(***************************************************************************)
C10_DaysIffExpiry ==
  /\ ret # None => (ret[1].days # None <=> ret[1].expiry # None)
  /\ \A b \in {"expiring", "normal"} :
       \A k \in 1..Len(results[b]) :
         results[b][k].days # None <=> results[b][k].expiry # None

(***************************************************************************)
(* C11: the notifier is called exactly when one of the unregistered,       *)
(* expiring, special and failed lists has an entry, however many normal    *)
(* results there are; a run whose domains are all normal does not call it. *)
(***************************************************************************)
C11_NotifyIffAttention ==
  pc = "done" /\ message # None =>
     /\ sends > 0 <=> Bucketed(results) > Len(results.normal)
     /\ notified \in {"sent", "failed"} <=> sends > 0
     /\ notified = "quiet" <=> sends = 0

C11_Witness ==
  /\ pc = "done"
  /\ Len(results.normal) = 2
  /\ Bucketed(results) = 2
  /\ sends = 0
  /\ notified = "quiet"

(***************************************************************************)
(* C12: the notifier is called at most once in a run, and only when every  *)
(* input domain has its result; the message holds all the entries of the   *)
(* four reported lists.                                                    *)
(***************************************************************************)
C12_OneNotification ==
  /\ sends <= 1
  /\ pc # "done" => sends = 0 /\ notified = "no" /\ message = None
  /\ sends = 1 =>
       /\ pc = "done"
       /\ Bucketed(results) = Len(domains)
       /\ message # None
       /\ message[1].total = Len(domains)
       /\ Len(message[1].unregistered) = Len(results.unregistered)
       /\ Len(message[1].expiring) = Len(results.expiring)
       /\ Len(message[1].special) = Len(results.special)
       /\ Len(message[1].failed) = Len(results.failed)

C12_Witness ==
  /\ sends = 1
  /\ Len(domains) = 2
  /\ Len(results.failed) = 1
  /\ Len(results.special) = 1
  /\ request_waits = 1

(***************************************************************************)
(* C13: the expiring section of the message is the expiring list in        *)
(* ascending order of day count, entries with equal day counts keeping     *)
(* their order in the list.                                                *)
(***************************************************************************)
\* the orders of n entries
Orders(n) ==
  { f \in [1..n -> 1..n] : \A a, b \in 1..n : a # b => f[a] # f[b] }

\* the message line(s) of one expiring entry
Line(e) ==
  [urgency |-> urgency(e.days[1]), domain |-> e.domain, days |-> e.days[1],
   date |-> strftime_date(e.expiry[1])]

C13_StableAscending ==
  message # None =>
    LET sec == message[1].expiring
        lst == results.expiring
    IN /\ Len(sec) = Len(lst)
       /\ \E f \in Orders(Len(lst)) :
            /\ \A k \in 1..Len(lst) : sec[k] = Line(lst[f[k]])
            /\ \A k, l \in 1..Len(lst) :
                 k < l =>
                   \/ lst[f[k]].days[1] < lst[f[l]].days[1]
                   \/ /\ lst[f[k]].days[1] = lst[f[l]].days[1]
                      /\ f[k] < f[l]

C13_Witness ==
  /\ message # None
  /\ Len(results.expiring) = 2
  /\ results.expiring[1].days[1] > results.expiring[2].days[1]
  /\ message[1].expiring[1].domain # message[1].expiring[2].domain

(***************************************************************************)
(* C14: every run ends.  Each domain's resolution returns after finitely   *)
(* many lookups and waits, and the report is built after the last domain.  *)
(* The program is sequential: a step that can be taken is taken (the       *)
(* request has a timeout, a sleep ends), which is weak fairness of Next.   *)
(***************************************************************************)
FairSpec == Spec /\ WF_vars(Next)

C14_Terminates == <>(pc = "done" /\ Bucketed(results) = Len(domains))

C14_Witness ==
  /\ pc = "done"
  /\ Len(domains) = 2
  /\ Len(results.failed) = 2
  /\ message # None

(***************************************************************************)
(* C15: the retry steps.  A transient failure with retry_count below       *)
(* max_retries is followed by one sleep of retry_delay and then a lookup   *)
(* of the same domain with retry_count one higher; a transient failure     *)
(* with retry_count = max_retries ends the resolution with no sleep; and   *)
(* when a resolution has returned, it slept retry_delay once per retry and *)
(* not again.                                                              *)
(***************************************************************************)
C15_LookupStep ==
  LET kind == failure_kind(last'[1].out, newlib) IN
    /\ (kind # "none" /\ retry_count < max_retries) =>
          /\ pc' = "backoff"
          /\ UNCHANGED << i, retry_count, retry_waits, slept, results >>
    /\ (kind # "none" /\ retry_count = max_retries) =>
          /\ pc' \in {"pause", "report"}
          /\ ret' # None
          /\ UNCHANGED << i, retry_count, retry_waits, slept >>
    /\ kind = "none" =>
          /\ pc' \in {"pause", "report"}
          /\ UNCHANGED << i, retry_count, retry_waits, slept >>

C15_WaitStep ==
  /\ pc' = "request"
  /\ slept' = retry_delay
  /\ retry_waits' = retry_waits + 1
  /\ retry_count' = retry_count + 1
  /\ retry_count' <= max_retries
  /\ UNCHANGED << i, domains, attempts, results >>

C15_RetrySteps ==
  [][ /\ attempts' = attempts + 1 => C15_LookupStep
      /\ pc = "backoff" => C15_WaitStep
      /\ retry_waits' # retry_waits => (pc = "backoff" \/ retry_waits' = 0)
    ]_vars

C15_Witness ==
  /\ pc = "request"
  /\ i = 2
  /\ retry_count = max_retries
  /\ retry_waits = max_retries
  /\ slept = retry_delay
  /\ failure_kind(last[1].out, newlib) = "provider"

(***************************************************************************)
(* C16: the domains are resolved one at a time in input order.  While      *)
(* domain i is looked up every earlier domain has its result and the run   *)
(* has slept request_delay once per earlier domain; a sleep of             *)
(* request_delay happens only after a domain that is not the last has      *)
(* returned, and is followed by the first lookup of the next domain; the   *)
(* run ends with one sleep fewer than domains.                             *)
(***************************************************************************)
C16_PauseStep ==
  /\ ret # None
  /\ i < Len(domains)
  /\ pc' = "request"
  /\ i' = i + 1
  /\ slept' = request_delay
  /\ request_waits' = request_waits + 1
  /\ retry_count' = 0
  /\ results' = results

C16_InOrder ==
  /\ [](/\ pc \in {"request", "backoff"} => Bucketed(results) = i - 1
        /\ pc \in {"pause", "report"} => Bucketed(results) = i
        /\ domains # << >> => request_waits = i - 1
        /\ pc = "done" /\ domains # << >> =>
             i = Len(domains) /\ request_waits = Len(domains) - 1)
  /\ [][ /\ pc = "pause" => C16_PauseStep
         /\ request_waits' # request_waits => pc = "pause"
         /\ i' # i => pc = "pause"
         /\ attempts' = attempts + 1 /\ ret' # None =>
              \E b \in ListNames :
                /\ Len(results'[b]) = Len(results[b]) + 1
                /\ results'[b][Len(results'[b])].domain = domains[i]
       ]_vars

C16_Witness ==
  /\ pc = "done"
  /\ Len(domains) = 2
  /\ request_waits = 1
  /\ slept = request_delay
  /\ Bucketed(results) = 2

(***************************************************************************)
(* C17: a successful payload whose expiration string no layout parses is   *)
(* answered by the first lookup, is never put in the failed or expiring    *)
(* list, and, when its status text makes it neither unregistered nor       *)
(* special, is returned as plainly registered with no expiry and no day    *)
(* count, a detail quoting the string, and is put in the normal list.      *)
(***************************************************************************)
\* the payload carries an expiration string that no layout accepts
unparsable(o) ==
  /\ successful(o)
  /\ o.result.data.expiration.type = "str"
  /\ o.result.data.expiration.s.layout = "garbage"

tags_of(status) ==
  IF Len(status) <= 1 THEN << >>
  ELSE [k \in 1..((Len(status) - 2) \div 2) |-> status[2 * k + 1]]

StateNames == { special_statuses[k].name : k \in 1..Len(special_statuses) }

\* one of the markers of the state name occurs in the text
marker_of(name, text) ==
  \E k \in 1..Len(special_statuses) :
    /\ special_statuses[k].name = name
    /\ Contains(special_statuses[k].key, RemoveSpaces(Lower(text)))

C18_TagsAreSet ==
  (Returned /\ successful(last[1].out) /\ ~rule1(status_text(last[1].out))) =>
     LET tags == tags_of(ret[1].status) IN
       /\ \A j, k \in 1..Len(tags) : tags[j] = tags[k] => j = k
       /\ \A name \in StateNames :
            (\E k \in 1..Len(tags) : tags[k] = name)
              <=> marker_of(name, status_text(last[1].out))

(***************************************************************************)
(* C19: every line of the expiring section of the message has              *)
(* 0 <= days <= expiry_alert_days and the one mark its day count gives:    *)
(* red up to 7 days, yellow from 8 to 14, green from 15 on.                *)
(***************************************************************************)
C19_UrgencyTiers ==
  message # None =>
    /\ Len(message[1].expiring) = Len(results.expiring)
    /\ \A k \in 1..Len(message[1].expiring) :
         LET e == message[1].expiring[k] IN
           /\ 0 <= e.days /\ e.days <= expiry_alert_days
           /\ e.urgency \in {"red", "yellow", "green"}
           /\ e.urgency = "red" <=> e.days <= 7
           /\ e.urgency = "yellow" <=> (7 < e.days /\ e.days <= 14)
           /\ e.urgency = "green" <=> (14 < e.days /\ e.days <= expiry_alert_days)

C19_Witness ==
  /\ message # None
  /\ Len(message[1].expiring) = 1
  /\ message[1].expiring[1].days = 7
  /\ message[1].expiring[1].urgency = "red"

(***************************************************************************)
(* C20: the day count is the floor of (expiry - now) in days: the expiry   *)
(* lies in the day-long interval that starts days whole days after now.    *)
(* An expiry less than a day after now gives 0 and, for a plainly          *)
(* registered domain, the expiring list; an expiry up to a day before now  *)
(* gives -1 and the normal list.                                           *)
(***************************************************************************)
C20_DaysIsFloor ==
  (Returned /\ ret[1].expiry # None) =>
     LET diff == ret[1].expiry[1] - last[1].today
         days == ret[1].days[1]
         plain == ret[1].status = << "registered" >>
     IN /\ days * TicksPerDay <= diff
        /\ diff < (days + 1) * TicksPerDay
        /\ (0 <= diff /\ diff < TicksPerDay) =>
             /\ days = 0
             /\ plain => Len(results.expiring) = 1 /\ results.normal = << >>
        /\ (0 - TicksPerDay <= diff /\ diff < 0) =>
             /\ days = 0 - 1
             /\ plain => Len(results.normal) = 1 /\ results.expiring = << >>

C20_Witness ==
  /\ Returned
  /\ ret[1].expiry # None
  /\ ret[1].expiry[1] - last[1].today = 0 - 1
  /\ ret[1].days = Some(0 - 1)
  /\ ret[1].status = << "registered" >>
  /\ Len(results.normal) = 1

====
